---- MODULE Spec2Model ----
(***************************************************************************)
(* Recurring-transaction detector of the finance application               *)
(* (src/src/services/recurring_detector.py) over the Transaction table     *)
(* (src/src/api/routes/transactions.py).                                   *)
(*                                                                         *)
(* Representation.  Dates are day ordinals (date.toordinal()), so that a   *)
(* date difference `.days` is integer subtraction.  Amounts are whole      *)
(* currency units: float() is exact on them and every comparison of a      *)
(* quotient of two such numbers with 0.1, 0.7 or 0.8 agrees with the       *)
(* comparison of the exact rationals, which is what the model computes.    *)
(* A confidence is kept as the number of whole hundredths it contains      *)
(* (floor(100 * confidence)); 0.6 is 60 and 1.0 is 100.  Strings are       *)
(* sequences of one-character strings.                                     *)
(***************************************************************************)
EXTENDS Integers, Sequences, FiniteSets, TLC

VARIABLES
    store,      \* the transactions table: id -> row
    today,      \* date.today()
    nextUuid,   \* number of uuid4() values handed out so far
    pc,         \* per run: where the caller of the detector stands
    queried,    \* per run: the list `transactions` the detection query returned
    analysed,   \* per run: every `pattern` built in the loop of detect_recurring_transactions
    patterns,   \* per run: the list detect_recurring_transactions returned
    marking,    \* per run: the mark_transactions_as_recurring call in progress
    marked,     \* per run: how the last mark_transactions_as_recurring call ended
    forecast,   \* per run: what the last predict_next_transactions call returned
    everMarked, \* ids tagged by a committed mark_transactions_as_recurring
    fresh,      \* per run: the patterns of its last detection that no commit has
                \* overtaken (history, for the serialised use of the detector)
    args,       \* arguments of the helper call under examination
    ret         \* what that call returned (or the exception it raised)

vars == <<store, today, nextUuid, pc, queried, analysed, patterns, marking, marked,
          forecast, everMarked, fresh, args, ret>>

\* An Optional value is a sequence of length 0 (None) or 1.  A counterpart
\* name that is None or "" (both falsy) is the empty string <<>>.
NoValue == <<>>
Some(x) == <<x>>

----------------------------------------------------------------------------
(* Program constants.                                                      *)

\* A threshold of 2 occurrences instead of 3.
MinOccurrencesTwo == 3 - 1

min_occurrences == 3
ConfScale == 100
MinConfidence == 60
OccurrenceBonusStep == 5
OccurrenceBonusCap == 20

\* similarity_threshold = 0.8, amount_tolerance = 0.1 and the counterpart
\* threshold 0.7, as numerator and denominator.
similarity_threshold == <<8, 10>>
amount_tolerance == <<1, 10>>
counterpart_threshold == <<7, 10>>

\* The daily entry with no tolerance.
FrequencyPatternsExactDaily ==
    << <<1, "daily", 0>>, <<7, "weekly", 2>>, <<14, "biweekly", 3>>,
       <<30, "monthly", 5>>, <<90, "quarterly", 10>>, <<365, "yearly", 30>> >>

frequency_patterns ==
    << <<1, "daily", 1>>, <<7, "weekly", 2>>, <<14, "biweekly", 3>>,
       <<30, "monthly", 5>>, <<90, "quarterly", 10>>, <<365, "yearly", 30>> >>

----------------------------------------------------------------------------
(* Small arithmetic helpers.                                               *)

Abs(x) == IF x < 0 THEN -x ELSE x
Max(x, y) == IF x >= y THEN x ELSE y
Min(x, y) == IF x <= y THEN x ELSE y

RECURSIVE SumSeq(_)
SumSeq(s) == IF s = <<>> THEN 0 ELSE Head(s) + SumSeq(Tail(s))

RECURSIVE SumSquares(_)
SumSquares(s) == IF s = <<>> THEN 0 ELSE Head(s) * Head(s) + SumSquares(Tail(s))

\* Smallest r with r * r >= n, by bisection on lo < r <= hi.
RECURSIVE CeilSqrtIn(_, _, _)
CeilSqrtIn(n, lo, hi) ==
    IF hi - lo <= 1 THEN hi
    ELSE LET mid == (lo + hi) \div 2
         IN IF mid * mid >= n THEN CeilSqrtIn(n, lo, mid) ELSE CeilSqrtIn(n, mid, hi)

CeilSqrt(n) == IF n = 0 THEN 0 ELSE CeilSqrtIn(n, 0, 46340)

----------------------------------------------------------------------------
(* difflib.SequenceMatcher(None, a.lower(), b.lower()).ratio()             *)

Lower(c) ==
    CASE c = "N" -> "n"
      [] c = "E" -> "e"
      [] c = "T" -> "t"
      [] OTHER -> c

LowerStr(s) == [i \in 1..Len(s) |-> Lower(s[i])]

\* The matching blocks <<i, j, k>>: a[i .. i+k-1] = b[j .. j+k-1], k >= 1.
MatchingBlocks(a, b) ==
    {m \in (1..Len(a)) \X (1..Len(b)) \X (1..Len(a)) :
        /\ m[1] + m[3] - 1 <= Len(a)
        /\ m[2] + m[3] - 1 <= Len(b)
        /\ \A d \in 0..(m[3] - 1) : a[m[1] + d] = b[m[2] + d]}

\* find_longest_match: the longest block; of those the one that starts
\* earliest in a; of those the one that starts earliest in b.
LongestMatch(a, b) ==
    CHOOSE m \in MatchingBlocks(a, b) :
        \A o \in MatchingBlocks(a, b) :
            \/ m[3] > o[3]
            \/ m[3] = o[3] /\ m[1] < o[1]
            \/ m[3] = o[3] /\ m[1] = o[1] /\ m[2] <= o[2]

\* get_matching_blocks: the longest match, then the same to its left and to
\* its right; the result is the total number of matched characters.
RECURSIVE MatchedChars(_, _)
MatchedChars(a, b) ==
    IF MatchingBlocks(a, b) = {} THEN 0
    ELSE LET m == LongestMatch(a, b)
         IN MatchedChars(SubSeq(a, 1, m[1] - 1), SubSeq(b, 1, m[2] - 1))
            + m[3]
            + MatchedChars(SubSeq(a, m[1] + m[3], Len(a)), SubSeq(b, m[2] + m[3], Len(b)))

\* The descriptions and counterpart names the specifications use, and the
\* matched characters of every pair of them, computed once.
DescNet == <<"N", "e", "t">>
DescNetLower == <<"n", "e", "t">>
DescNets == <<"n", "e", "t", "s">>
DescNe == <<"n", "e">>
DescNeo == <<"n", "e", "o">>
DescGym == <<"g", "y", "m">>

NameNeta == <<"n", "e", "t", "a">>

KnownStrings == {DescNet, DescNetLower, DescNets, DescNe, DescNeo, DescGym, NameNeta}

MatchedTable ==
    {<<a, b, MatchedChars(LowerStr(a), LowerStr(b))>> : a \in KnownStrings, b \in KnownStrings}

Matches(a, b) ==
    IF a \in KnownStrings /\ b \in KnownStrings THEN (CHOOSE t \in MatchedTable : t[1] = a /\ t[2] = b)[3]
    ELSE MatchedChars(LowerStr(a), LowerStr(b))

\* ratio() = 2.0 * matches / (len(a) + len(b)), and 1.0 when both are empty;
\* RatioBelow(a, b, t) is ratio() < t[1] / t[2].
RatioBelow(a, b, t) ==
    LET total == Len(a) + Len(b)
    IN IF total = 0 THEN t[1] > t[2]
       ELSE 2 * Matches(a, b) * t[2] < t[1] * total

----------------------------------------------------------------------------
(* RecurringDetector._are_transactions_similar                             *)

\* The tolerance taken as exclusive: a difference of exactly 10% is rejected.
AmountDiffAtLeast(a1, a2, t) ==
    LET amount1 == Abs(a1)
        amount2 == Abs(a2)
    IN Abs(amount1 - amount2) * t[2] >= t[1] * Max(amount1, amount2)

\* The difference taken between the signed amounts.
AmountDiffSigned(a1, a2, t) ==
    Abs(a1 - a2) * t[2] > t[1] * Max(Abs(a1), Abs(a2))

\* abs(float(tx1.amount)), abs(float(tx2.amount)) and the test
\* abs(amount1 - amount2) / max(amount1, amount2) > amount_tolerance.
AmountDiffAbove(a1, a2, t) ==
    LET amount1 == Abs(a1)
        amount2 == Abs(a2)
    IN Abs(amount1 - amount2) * t[2] > t[1] * Max(amount1, amount2)

AmountDivides(a1, a2) == Max(Abs(a1), Abs(a2)) # 0

\* The counterpart test also failing a pair of which only one transaction
\* has a counterpart name.
AreTransactionsSimilarNamesRequired(tx1, tx2) ==
    IF RatioBelow(tx1.description, tx2.description, similarity_threshold) THEN "False"
    ELSE IF ~AmountDivides(tx1.amount, tx2.amount) THEN "ZeroDivisionError"
    ELSE IF AmountDiffAbove(tx1.amount, tx2.amount, amount_tolerance) THEN "False"
    ELSE IF /\ tx1.counterpart_name # <<>> \/ tx2.counterpart_name # <<>>
            /\ \/ tx1.counterpart_name = <<>>
               \/ tx2.counterpart_name = <<>>
               \/ RatioBelow(tx1.counterpart_name, tx2.counterpart_name, counterpart_threshold)
         THEN "False"
    ELSE "True"

\* "True", "False", or the exception the call ends with.
AreTransactionsSimilar(tx1, tx2) ==
    IF RatioBelow(tx1.description, tx2.description, similarity_threshold) THEN "False"
    ELSE IF ~AmountDivides(tx1.amount, tx2.amount) THEN "ZeroDivisionError"
    ELSE IF AmountDiffAbove(tx1.amount, tx2.amount, amount_tolerance) THEN "False"
    ELSE IF /\ tx1.counterpart_name # <<>>
            /\ tx2.counterpart_name # <<>>
            /\ RatioBelow(tx1.counterpart_name, tx2.counterpart_name, counterpart_threshold)
         THEN "False"
    ELSE "True"

----------------------------------------------------------------------------
(* RecurringDetector._detect_frequency                                     *)

\* The bucket test with the tolerance excluded: abs(...) < tolerance.
RECURSIVE FirstBucketStrict(_, _)
FirstBucketStrict(intervals, k) ==
    IF k > Len(frequency_patterns) THEN 0
    ELSE LET pattern_days == frequency_patterns[k][1]
             tolerance == frequency_patterns[k][3]
             n == Len(intervals)
         IN IF Abs(SumSeq(intervals) - pattern_days * n) < tolerance * n
            THEN k
            ELSE FirstBucketStrict(intervals, k + 1)

\* The first entry of frequency_patterns with
\* abs(avg_interval - pattern_days) <= tolerance, or 0 when there is none;
\* avg_interval = sum(intervals) / len(intervals).
RECURSIVE FirstBucket(_, _)
FirstBucket(intervals, k) ==
    IF k > Len(frequency_patterns) THEN 0
    ELSE LET pattern_days == frequency_patterns[k][1]
             tolerance == frequency_patterns[k][3]
             n == Len(intervals)
         IN IF Abs(SumSeq(intervals) - pattern_days * n) <= tolerance * n
            THEN k
            ELSE FirstBucket(intervals, k + 1)

\* The guard of cv giving 0 instead of inf when avg_interval <= 0.
RegularityConfidenceZeroCv(intervals) ==
    LET n == Len(intervals)
        S == SumSeq(intervals)
        V == n * SumSquares(intervals) - S * S
    IN IF S <= 0 THEN ConfScale
       ELSE LET half_cv == (CeilSqrt(ConfScale * ConfScale * V) + 2 * S - 1) \div (2 * S)
            IN Max(0, ConfScale - half_cv)

\* max(0.0, 1.0 - cv / 2.0) with cv = std_dev / avg_interval, or inf when
\* avg_interval <= 0.  With n = len, S = sum, Q = sum of squares:
\* cv = sqrt(n * Q - S * S) / S.
RegularityConfidence(intervals) ==
    LET n == Len(intervals)
        S == SumSeq(intervals)
        V == n * SumSquares(intervals) - S * S
    IN IF S <= 0 THEN 0
       ELSE LET half_cv == (CeilSqrt(ConfScale * ConfScale * V) + 2 * S - 1) \div (2 * S)
            IN Max(0, ConfScale - half_cv)

\* The bonus computed from the number of transactions, len(intervals) + 1.
OccurrenceBonusByCount(intervals) ==
    Min(OccurrenceBonusCap, (Len(intervals) + 1 - 2) * OccurrenceBonusStep)

\* min(0.2, (len(intervals) - 2) * 0.05)
OccurrenceBonus(intervals) ==
    Min(OccurrenceBonusCap, (Len(intervals) - 2) * OccurrenceBonusStep)

\* The confidence before the final min(1.0, confidence).
RawConfidence(intervals) ==
    LET confidence == RegularityConfidence(intervals) + OccurrenceBonus(intervals)
    IN IF FirstBucket(intervals, 1) = 0 THEN confidence \div 2 ELSE confidence

\* The final min(1.0, confidence) left out.
ConfidenceUncapped(c) == c

CapConfidence(c) == Min(ConfScale, c)

\* None for an empty list, else (int(target_interval), frequency_type, confidence).
DetectFrequency(intervals) ==
    IF intervals = <<>> THEN NoValue
    ELSE LET k == FirstBucket(intervals, 1)
             frequency_type == IF k = 0 THEN "irregular" ELSE frequency_patterns[k][2]
             target_interval ==
                 IF k = 0 THEN SumSeq(intervals) \div Len(intervals)
                 ELSE frequency_patterns[k][1]
         IN Some(<<target_interval, frequency_type, CapConfidence(RawConfidence(intervals))>>)

----------------------------------------------------------------------------
(* RecurringDetector._analyze_transaction_group                            *)

\* list.sort(key=lambda tx: tx.date): a stable sort by date.
RECURSIVE InsertByDate(_, _)
InsertByDate(sorted, tx) ==
    IF sorted = <<>> THEN <<tx>>
    ELSE IF sorted[Len(sorted)].date <= tx.date THEN Append(sorted, tx)
    ELSE Append(InsertByDate(SubSeq(sorted, 1, Len(sorted) - 1), tx), sorted[Len(sorted)])

\* The sort by date with reverse=True.
RECURSIVE SortByDateDescending(_)
SortByDateDescending(txs) ==
    IF txs = <<>> THEN <<>>
    ELSE LET rest == SortByDateDescending(SubSeq(txs, 1, Len(txs) - 1))
             tx == txs[Len(txs)]
             before == SelectSeq(rest, LAMBDA o : o.date >= tx.date)
             after == SelectSeq(rest, LAMBDA o : o.date < tx.date)
         IN before \o <<tx>> \o after

RECURSIVE SortByDate(_)
SortByDate(txs) ==
    IF txs = <<>> THEN <<>>
    ELSE InsertByDate(SortByDate(SubSeq(txs, 1, Len(txs) - 1)), txs[Len(txs)])

\* (transactions[i].date - transactions[i-1].date).days for i = 1 .. len - 1.
Intervals(txs) == [i \in 1..(Len(txs) - 1) |-> txs[i + 1].date - txs[i].date]

MinAbsAmount(txs) ==
    CHOOSE a \in {Abs(txs[i].amount) : i \in 1..Len(txs)} :
        \A b \in {Abs(txs[i].amount) : i \in 1..Len(txs)} : a <= b

MaxAbsAmount(txs) ==
    CHOOSE a \in {Abs(txs[i].amount) : i \in 1..Len(txs)} :
        \A b \in {Abs(txs[i].amount) : i \in 1..Len(txs)} : a >= b

----------------------------------------------------------------------------
(* RecurringDetector._find_common_words, _generate_description_pattern,    *)
(* _generate_merchant_pattern and the category suggestion.                 *)

\* The characters of the class [a-záàâãéêíóôõúç].
Letters ==
    { "a", "b", "c", "d", "e", "f", "g", "h", "i", "j", "k", "l", "m", "n", "o", "p", "q",
      "r", "s", "t", "u", "v", "w", "x", "y", "z",
      "á", "à", "â", "ã", "é", "ê", "í", "ó", "ô", "õ", "ú", "ç" }

Digits == {"0", "1", "2", "3", "4", "5", "6", "7", "8", "9"}

\* The characters \b does not break at: \w of a lowered text.
WordChars == Letters \cup Digits \cup {"_"}

\* The maximal runs of word characters of `text` from position i on; `cur`
\* is the run in progress.
RECURSIVE WordRuns(_, _, _)
WordRuns(text, i, cur) ==
    IF i > Len(text) THEN (IF cur = <<>> THEN <<>> ELSE <<cur>>)
    ELSE IF text[i] \in WordChars THEN WordRuns(text, i + 1, Append(cur, text[i]))
    ELSE (IF cur = <<>> THEN <<>> ELSE <<cur>>) \o WordRuns(text, i + 1, <<>>)

\* re.findall(r'\b[a-záàâãéêíóôõúç]+\b', text): a match starts and ends at
\* a word boundary, so it is a whole run of word characters, all letters.
FindAllWords(text) ==
    LET OnlyLetters(w) == \A i \in 1..Len(w) : w[i] \in Letters
    IN SelectSeq(WordRuns(text, 1, <<>>), OnlyLetters)

stop_words ==
    { <<"d", "e">>, <<"d", "a">>, <<"d", "o">>, <<"d", "a", "s">>, <<"d", "o", "s">>, <<"e">>,
      <<"o">>, <<"a">>, <<"o", "s">>, <<"a", "s">>, <<"e", "m">>, <<"n", "o">>, <<"n", "a">>,
      <<"n", "o", "s">>, <<"n", "a", "s">>, <<"p", "a", "r", "a">>, <<"p", "o", "r">>,
      <<"c", "o", "m">>, <<"s", "e", "m">>, <<"s", "o", "b">>, <<"s", "o", "b", "r", "e">>,
      <<"e", "n", "t", "r", "e">>, <<"a", "t", "e">>, <<"a", "t", "é">>,
      <<"d", "e", "s", "d", "e">>, <<"d", "u", "r", "a", "n", "t", "e">>, <<"p", "i", "x">>,
      <<"t", "r", "a", "n", "s", "f", "e", "r", "e", "n", "c", "i", "a">>,
      <<"t", "r", "a", "n", "s", "f", "e", "r", "ê", "n", "c", "i", "a">>,
      <<"p", "a", "g", "a", "m", "e", "n", "t", "o">>, <<"c", "o", "m", "p", "r", "a">>,
      <<"d", "e", "b", "i", "t", "o">>, <<"d", "é", "b", "i", "t", "o">> }

\* words = [w for w in words if len(w) > 2 and w not in stop_words]
KeptWords(text) ==
    LET Kept(w) == Len(w) > 2 /\ w \notin stop_words
    IN SelectSeq(FindAllWords(LowerStr(text)), Kept)

\* all_words after the loop over texts.
RECURSIVE AllWords(_)
AllWords(texts) ==
    IF texts = <<>> THEN <<>> ELSE KeptWords(Head(texts)) \o AllWords(Tail(texts))

\* counts[x] of a defaultdict(int) fed with the elements of s.
CountOf(s, x) == Cardinality({i \in 1..Len(s) : s[i] = x})

\* The keys of that dict, in insertion order.
FirstOccurrences(s) ==
    LET IsFirst(i) == \A j \in 1..(i - 1) : s[j] # s[i]
        RECURSIVE From(_)
        From(i) == IF i > Len(s) THEN <<>>
                   ELSE IF IsFirst(i) THEN <<s[i]>> \o From(i + 1)
                   ELSE From(i + 1)
    IN From(1)

\* max(counts.items(), key=lambda x: x[1])[0]: the first key, in insertion
\* order, with the largest count.
MostCommon(s) ==
    LET keys == FirstOccurrences(s)
        best == CHOOSE i \in 1..Len(keys) :
                    /\ \A j \in 1..Len(keys) : CountOf(s, keys[j]) <= CountOf(s, keys[i])
                    /\ \A j \in 1..(i - 1) : CountOf(s, keys[j]) < CountOf(s, keys[i])
    IN keys[best]

\* min_frequency = max(1, int(len(texts) * 0.7)): int() truncates; for the
\* list lengths below 10 of this model that is 7 * len // 10.
MinFrequency(texts) == Max(1, (Len(texts) * 7) \div 10)

MaxCommonWords == 3

\* common_words.sort(key=lambda w: word_counts[w], reverse=True): stable.
RECURSIVE SortByCount(_, _)
SortByCount(words, all_words) ==
    IF words = <<>> THEN <<>>
    ELSE LET sorted == SortByCount(SubSeq(words, 1, Len(words) - 1), all_words)
             w == words[Len(words)]
             RECURSIVE Insert(_)
             Insert(t) ==
                 IF t = <<>> THEN <<w>>
                 ELSE IF CountOf(all_words, t[Len(t)]) >= CountOf(all_words, w)
                      THEN Append(t, w)
                 ELSE Append(Insert(SubSeq(t, 1, Len(t) - 1)), t[Len(t)])
         IN Insert(sorted)

FindCommonWords(texts) ==
    LET all_words == AllWords(texts)
        min_frequency == MinFrequency(texts)
        Common(w) == CountOf(all_words, w) >= min_frequency
        common_words == SortByCount(SelectSeq(FirstOccurrences(all_words), Common), all_words)
    IN SubSeq(common_words, 1, Min(MaxCommonWords, Len(common_words)))

\* " ".join(words)
RECURSIVE JoinWords(_)
JoinWords(words) ==
    IF words = <<>> THEN <<>>
    ELSE IF Len(words) = 1 THEN words[1]
    ELSE words[1] \o <<" ">> \o JoinWords(Tail(words))

GenerateDescriptionPattern(transactions) ==
    LET descriptions == [i \in 1..Len(transactions) |-> transactions[i].description]
        common_words == FindCommonWords(descriptions)
    IN IF common_words # <<>> THEN JoinWords(common_words) ELSE MostCommon(descriptions)

\* None, or the most common counterpart_name among those that are set.
GenerateMerchantPattern(transactions) ==
    LET names == [i \in 1..Len(transactions) |-> transactions[i].counterpart_name]
        HasName(n) == n # NoValue
        merchants == SelectSeq(names, HasName)
    IN IF merchants = <<>> THEN NoValue ELSE Some(MostCommon(merchants))

\* tx.llm_category or tx.category.name if tx.category else "Outros": the
\* conditional binds last, so a transaction without a category gives
\* "Outros" whatever its llm_category.
CategoryLabel(tx) ==
    IF tx.category # NoValue
    THEN (IF tx.llm_category # NoValue THEN tx.llm_category[1] ELSE tx.category[1])
    ELSE "Outros"

\* max(category_counts.items(), ...)[0] if category_counts else None
CategorySuggestion(transactions) ==
    LET categories == [i \in 1..Len(transactions) |-> CategoryLabel(transactions[i])]
    IN IF categories = <<>> THEN NoValue ELSE Some(MostCommon(categories))

\* pattern_id, a uuid4() nothing reads, is left out of the record.
\* None, or the RecurringPattern of the group.
AnalyzeTransactionGroup(group) ==
    IF Len(group) < min_occurrences THEN NoValue
    ELSE LET transactions == SortByDate(group)
             intervals == Intervals(transactions)
             frequency_info == DetectFrequency(intervals)[1]
         IN IF intervals = <<>> \/ DetectFrequency(intervals) = NoValue THEN NoValue
            ELSE Some(
                 [ description_pattern |-> GenerateDescriptionPattern(transactions),
                   amount_range |-> <<MinAbsAmount(transactions), MaxAbsAmount(transactions)>>,
                   frequency_days |-> frequency_info[1],
                   frequency_type |-> frequency_info[2],
                   confidence |-> frequency_info[3],
                   transactions |-> [i \in 1..Len(transactions) |-> transactions[i].id],
                   next_expected_date |->
                       transactions[Len(transactions)].date + frequency_info[1],
                   merchant_pattern |-> GenerateMerchantPattern(transactions),
                   category_suggestion |-> CategorySuggestion(transactions) ])

----------------------------------------------------------------------------
(* RecurringDetector._group_similar_transactions                           *)

\* The inner loop comparing tx2 with the member added last, not with tx1.
RECURSIVE AbsorbSimilarChained(_, _, _, _)
AbsorbSimilarChained(transactions, tx1, j, st) ==
    IF j > Len(transactions) \/ st.raised THEN st
    ELSE LET tx2 == transactions[j]
         IN IF tx2.id \in st.used THEN AbsorbSimilarChained(transactions, tx1, j + 1, st)
            ELSE LET similar == AreTransactionsSimilar(st.group[Len(st.group)], tx2)
                 IN IF similar = "ZeroDivisionError"
                    THEN [st EXCEPT !.raised = TRUE]
                    ELSE IF similar = "True"
                    THEN AbsorbSimilarChained(transactions, tx1, j + 1,
                             [st EXCEPT !.group = Append(@, tx2), !.used = @ \cup {tx2.id}])
                    ELSE AbsorbSimilarChained(transactions, tx1, j + 1, st)

\* The inner loop over transactions[i+1:]: st = [group, used, raised].
RECURSIVE AbsorbSimilar(_, _, _, _)
AbsorbSimilar(transactions, tx1, j, st) ==
    IF j > Len(transactions) \/ st.raised THEN st
    ELSE LET tx2 == transactions[j]
         IN IF tx2.id \in st.used THEN AbsorbSimilar(transactions, tx1, j + 1, st)
            ELSE LET similar == AreTransactionsSimilar(tx1, tx2)
                 IN IF similar = "ZeroDivisionError"
                    THEN [st EXCEPT !.raised = TRUE]
                    ELSE IF similar = "True"
                    THEN AbsorbSimilar(transactions, tx1, j + 1,
                             [st EXCEPT !.group = Append(@, tx2), !.used = @ \cup {tx2.id}])
                    ELSE AbsorbSimilar(transactions, tx1, j + 1, st)

\* The comparison len(group) > minimum.
KeepGroupStrict(group, minimum) == Len(group) > minimum

\* Keeps a group when len(group) >= minimum.
KeepGroup(group, minimum) == Len(group) >= minimum

\* The outer loop: st = [groups, used, raised].
RECURSIVE GroupFrom(_, _, _, _)
GroupFrom(transactions, i, st, minimum) ==
    IF i > Len(transactions) \/ st.raised THEN st
    ELSE LET tx1 == transactions[i]
         IN IF tx1.id \in st.used THEN GroupFrom(transactions, i + 1, st, minimum)
            ELSE LET inner == AbsorbSimilar(transactions, tx1, i + 1,
                                  [group |-> <<tx1>>, used |-> st.used \cup {tx1.id},
                                   raised |-> FALSE])
                 IN GroupFrom(transactions, i + 1,
                        [groups |-> IF KeepGroup(inner.group, minimum)
                                    THEN Append(st.groups, inner.group) ELSE st.groups,
                         used |-> inner.used,
                         raised |-> inner.raised],
                        minimum)

\* Every group the loop forms, whatever its size.
AllGroups(transactions) ==
    GroupFrom(transactions, 1, [groups |-> <<>>, used |-> {}, raised |-> FALSE], 1)

GroupSimilarTransactions(transactions) ==
    GroupFrom(transactions, 1, [groups |-> <<>>, used |-> {}, raised |-> FALSE],
              min_occurrences)

----------------------------------------------------------------------------
(* RecurringDetector.detect_recurring_transactions                         *)

\* The query without its is_recurring filter.
CandidatesAnyFlag(rows, cutoff_date) ==
    {id \in DOMAIN rows : rows[id].date >= cutoff_date}

\* The rows of the query: date >= cutoff_date and is_recurring == False.
Candidates(rows, cutoff_date) ==
    {id \in DOMAIN rows : rows[id].date >= cutoff_date /\ rows[id].is_recurring = FALSE}

\* order_by(Transaction.date).all(): every list of the rows `ids` in
\* ascending date order; rows of one date come in an order the database picks.
RECURSIVE DateOrderings(_, _)
DateOrderings(rows, ids) ==
    IF ids = {} THEN {<<>>}
    ELSE LET first == {id \in ids : \A o \in ids : rows[id].date <= rows[o].date}
         IN UNION {{<<rows[id]>> \o rest : rest \in DateOrderings(rows, ids \ {id})} :
                   id \in first}

\* The loop over transaction_groups: the pattern of every group of at least
\* min_occurrences transactions.
RECURSIVE AnalyseGroups(_)
AnalyseGroups(groups) ==
    IF groups = <<>> THEN <<>>
    ELSE LET group == Head(groups)
         IN (IF Len(group) >= min_occurrences THEN AnalyzeTransactionGroup(group) ELSE NoValue)
            \o AnalyseGroups(Tail(groups))

\* pattern and pattern.confidence >= 0.6
Accepted(pattern) == pattern.confidence >= MinConfidence

\* patterns.sort(key=lambda p: p.confidence, reverse=True): stable, equal
\* confidences keep their order.
RECURSIVE InsertByConfidence(_, _)
InsertByConfidence(sorted, p) ==
    IF sorted = <<>> THEN <<p>>
    ELSE IF sorted[Len(sorted)].confidence >= p.confidence THEN Append(sorted, p)
    ELSE Append(InsertByConfidence(SubSeq(sorted, 1, Len(sorted) - 1), p), sorted[Len(sorted)])

\* The list left in the order in which the patterns were built.
PatternsUnsorted(ps) == ps

RECURSIVE SortByConfidence(_)
SortByConfidence(ps) ==
    IF ps = <<>> THEN <<>>
    ELSE InsertByConfidence(SortByConfidence(SubSeq(ps, 1, Len(ps) - 1)), ps[Len(ps)])

\* The call on the list `transactions` the query returned:
\* [raised, analysed, patterns].
DetectRecurringTransactions(transactions) ==
    IF Len(transactions) < min_occurrences
    THEN [raised |-> FALSE, analysed |-> <<>>, patterns |-> <<>>]
    ELSE LET grouping == GroupSimilarTransactions(transactions)
             built == AnalyseGroups(grouping.groups)
         IN IF grouping.raised
            THEN [raised |-> TRUE, analysed |-> <<>>, patterns |-> <<>>]
            ELSE [raised |-> FALSE,
                  analysed |-> built,
                  patterns |-> SortByConfidence(SelectSeq(built, Accepted))]

----------------------------------------------------------------------------
(* The transactions table and the callers of the detector.                 *)

NumRuns == 2
Runs == 1..NumRuns

\* A row as the import writes it: is_recurring defaults to False, the
\* recurring fields are NULL and updated_at is the day of the insert, here
\* the day of the transaction.  validate_amount refuses a zero amount.
Row(id, date, amount, description, counterpart_name) ==
    [ id |-> id, date |-> date, amount |-> amount, description |-> description,
      counterpart_name |-> counterpart_name,
      category |-> NoValue, llm_category |-> NoValue,
      is_recurring |-> FALSE, recurring_pattern |-> NoValue,
      recurring_group_id |-> NoValue, updated_at |-> date ]

ValidAmount(amount) == amount # 0

\* Every row of the table went through validate_amount.
Validated(rows) == \A id \in DOMAIN rows : ValidAmount(rows[id].amount)

\* days_back: the default and a short window.
DaysBackChoices == {365, 30}

MaxUuid == 2

IdsOf(transactions) == [i \in 1..Len(transactions) |-> transactions[i].id]

\* detect_recurring_transactions(db, days_back), called by run r.
Detect(r, days_back) ==
    /\ pc[r] \in {"idle", "detected"}
    /\ \E transactions \in DateOrderings(store, Candidates(store, today - days_back)) :
          LET result == DetectRecurringTransactions(transactions)
          IN /\ queried' = [queried EXCEPT ![r] = IdsOf(transactions)]
             /\ analysed' = [analysed EXCEPT ![r] = result.analysed]
             /\ patterns' = [patterns EXCEPT ![r] = result.patterns]
             /\ fresh' = [fresh EXCEPT ![r] =
                    {result.patterns[k].transactions : k \in 1..Len(result.patterns)}]
             /\ pc' = [pc EXCEPT ![r] = IF result.raised THEN "raised" ELSE "detected"]
    /\ UNCHANGED <<store, today, nextUuid, marking, marked, forecast, everMarked, args, ret>>

\* mark_transactions_as_recurring(db, pattern) up to its query: a fresh
\* uuid4() and the rows whose id is in pattern.transactions.
MarkQuery(r, k) ==
    /\ pc[r] = "detected"
    /\ k \in 1..Len(patterns[r])
    /\ nextUuid < MaxUuid
    /\ nextUuid' = nextUuid + 1
    /\ marking' = [marking EXCEPT ![r] =
           Some([ pattern |-> patterns[r][k],
                  recurring_group_id |-> nextUuid + 1,
                  transactions |-> {id \in DOMAIN store :
                      \E i \in 1..Len(patterns[r][k].transactions) :
                          patterns[r][k].transactions[i] = id} ])]
    /\ pc' = [pc EXCEPT ![r] = "marking"]
    /\ UNCHANGED <<store, today, queried, analysed, patterns, marked, forecast, everMarked, fresh,
                   args, ret>>

\* The loop leaving recurring_pattern as it was.
TagRowsWithoutPattern(rows, fetched, frequency_type, recurring_group_id, now) ==
    [id \in DOMAIN rows |->
        IF id \in fetched
        THEN [rows[id] EXCEPT
                 !.is_recurring = TRUE,
                 !.recurring_group_id = Some(recurring_group_id),
                 !.updated_at = now]
        ELSE rows[id]]

\* The loop running over every row of the table.
TagRowsEveryRow(rows, fetched, frequency_type, recurring_group_id, now) ==
    [id \in DOMAIN rows |->
        [rows[id] EXCEPT
            !.is_recurring = TRUE,
            !.recurring_pattern = Some(frequency_type),
            !.recurring_group_id = Some(recurring_group_id),
            !.updated_at = now]]

\* The loop over the fetched rows: is_recurring, recurring_pattern and
\* recurring_group_id of every row in `fetched` that is still in the table.
\* The UPDATE of such a row also sets updated_at (onupdate=datetime.utcnow)
\* to `now`, the day of the commit.
TagRows(rows, fetched, frequency_type, recurring_group_id, now) ==
    [id \in DOMAIN rows |->
        IF id \in fetched
        THEN [rows[id] EXCEPT
                 !.is_recurring = TRUE,
                 !.recurring_pattern = Some(frequency_type),
                 !.recurring_group_id = Some(recurring_group_id),
                 !.updated_at = now]
        ELSE rows[id]]

\* The loop over the fetched rows, db.commit() and the return of
\* updated_count: the UPDATEs of the session reach the table in one commit.
\* updated_count counts the fetched rows.
MarkCommit(r) ==
    /\ pc[r] = "marking"
    /\ LET call == marking[r][1]
       IN /\ store' = TagRows(store, call.transactions, call.pattern.frequency_type,
                              call.recurring_group_id, today)
          /\ everMarked' = everMarked \cup (call.transactions \cap DOMAIN store)
          /\ fresh' = [q \in Runs |->
                 IF q = r THEN fresh[r] \ {call.pattern.transactions} ELSE {}]
          /\ marked' = [marked EXCEPT ![r] =
                 Some([ pattern |-> call.pattern,
                        recurring_group_id |-> call.recurring_group_id,
                        transactions |-> call.transactions,
                        updated_count |-> Cardinality(call.transactions),
                        raised |-> FALSE ])]
    /\ marking' = [marking EXCEPT ![r] = NoValue]
    /\ pc' = [pc EXCEPT ![r] = "detected"]
    /\ UNCHANGED <<today, nextUuid, queried, analysed, patterns, forecast, args, ret>>

\* db.commit() when a fetched row has been deleted since the query: the
\* UPDATE of that row matches nothing, which the session may report by
\* raising; the transaction is then rolled back and the table is unchanged.
MarkStale(r) ==
    /\ pc[r] = "marking"
    /\ LET call == marking[r][1]
       IN /\ ~(call.transactions \subseteq DOMAIN store)
          /\ marked' = [marked EXCEPT ![r] =
                 Some([ pattern |-> call.pattern,
                        recurring_group_id |-> call.recurring_group_id,
                        transactions |-> call.transactions,
                        updated_count |-> 0,
                        raised |-> TRUE ])]
    /\ marking' = [marking EXCEPT ![r] = NoValue]
    /\ pc' = [pc EXCEPT ![r] = "failed"]
    /\ UNCHANGED <<store, today, nextUuid, queried, analysed, patterns, forecast,
                   everMarked, fresh, args, ret>>

\* DELETE /api/v1/transactions/{id}: the row leaves the table.
DeleteTransaction(id) ==
    /\ id \in DOMAIN store
    /\ store' = [o \in DOMAIN store \ {id} |-> store[o]]
    /\ UNCHANGED <<today, nextUuid, pc, queried, analysed, patterns, marking, marked,
                   forecast, everMarked, fresh, args, ret>>

NoRuns ==
    /\ pc = [r \in Runs |-> "idle"]
    /\ queried = [r \in Runs |-> <<>>]
    /\ analysed = [r \in Runs |-> <<>>]
    /\ patterns = [r \in Runs |-> <<>>]
    /\ marking = [r \in Runs |-> NoValue]
    /\ marked = [r \in Runs |-> NoValue]
    /\ forecast = [r \in Runs |-> NoValue]
    /\ everMarked = {}
    /\ fresh = [r \in Runs |-> {}]
    /\ nextUuid = 0

NoCall ==
    /\ args = <<>>
    /\ ret = <<>>

----------------------------------------------------------------------------
(* Descriptions and stores the specifications start from.                  *)

Today == 400

\* Rows 1..Len(kinds) in date order: row i has the description and amount
\* kinds[i], the first row is dated `start`, and gaps[i] days lie between
\* row i and row i + 1.
RECURSIVE DateAt(_, _, _)
DateAt(start, gaps, i) == IF i = 1 THEN start ELSE DateAt(start, gaps, i - 1) + gaps[i - 1]

StoreOf(start, kinds, gaps) ==
    [id \in 1..Len(kinds) |->
        Row(id, DateAt(start, gaps, id), kinds[id][2], kinds[id][1], NoValue)]

----------------------------------------------------------------------------
(* SpecSimilar: _are_transactions_similar on a pair of transactions.       *)

SimAmounts == {-109, -100, 0, 90, 100, 109, 112}
SimDescriptions == {DescNet, DescNetLower, DescNe, DescNeo, DescGym}
SimNames == {NoValue, DescNets, NameNeta, DescGym}

SimTransactions ==
    {Row(id, Today, amount, description, name) :
        id \in {1}, amount \in SimAmounts, description \in SimDescriptions, name \in SimNames}

InitSimilar ==
    /\ store = <<>>
    /\ today = Today
    /\ NoRuns
    /\ args \in {<<tx1, [tx2 EXCEPT !.id = 2]>> : tx1 \in SimTransactions, tx2 \in SimTransactions}
    /\ ret = <<>>

CallAreTransactionsSimilar ==
    /\ Len(args) = 2
    /\ ret = <<>>
    /\ ret' = Some(AreTransactionsSimilar(args[1], args[2]))
    /\ UNCHANGED <<store, today, nextUuid, pc, queried, analysed, patterns, marking,
                   marked, forecast, everMarked, fresh, args>>

NextSimilar == CallAreTransactionsSimilar

SpecSimilar == InitSimilar /\ [][NextSimilar]_vars

\* The pair under examination has descriptions that are equal up to case and
\* no counterpart names, so that the amounts alone decide the result.
AmountsDecide ==
    /\ Len(args) = 2
    /\ ret # <<>>
    /\ LowerStr(args[1].description) = LowerStr(args[2].description)
    /\ args[1].counterpart_name = NoValue
    /\ args[2].counterpart_name = NoValue

SameSign(a, b) == (a > 0 /\ b > 0) \/ (a < 0 /\ b < 0)

C24_CounterpartBlocksOnlyWhenBoth ==
    Len(args) = 2 /\ ret # <<>> =>
        LET tx1 == args[1]
            tx2 == args[2]
            alone == AreTransactionsSimilar([tx1 EXCEPT !.counterpart_name = NoValue],
                                            [tx2 EXCEPT !.counterpart_name = NoValue])
            both == tx1.counterpart_name # NoValue /\ tx2.counterpart_name # NoValue
            n1 == LowerStr(tx1.counterpart_name)
            n2 == LowerStr(tx2.counterpart_name)
            below == 10 * 2 * Matches(n1, n2) < 7 * (Len(n1) + Len(n2))
        IN /\ ~both => ret = Some(alone)
           /\ both /\ ~below => ret = Some(alone)
           /\ both /\ below /\ alone = "True" => ret = Some("False")
           /\ both /\ below /\ alone # "True" => ret = Some(alone)

\* Equal descriptions and amounts, counterpart names "nets" and "gym": the
\* names alone make the pair not similar.
C24_Witness ==
    /\ Len(args) = 2
    /\ ret = Some("False")
    /\ args[1].description = args[2].description
    /\ args[1].amount = 100 /\ args[2].amount = 100
    /\ args[1].counterpart_name = DescNets
    /\ args[2].counterpart_name = DescGym

\* C6 as stated: for non-zero signed amounts the amount condition holds
\* exactly when |amount1 - amount2| / max(|amount1|, |amount2|) <= 0.1 with
\* the difference taken between the signed amounts.
C6_SignedDifference ==
    AmountsDecide /\ args[1].amount # 0 /\ args[2].amount # 0 =>
        (ret = Some("True")) <=>
            (10 * Abs(args[1].amount - args[2].amount)
                <= Max(Abs(args[1].amount), Abs(args[2].amount)))

\* C6 amended: for non-zero signed amounts the amount condition holds exactly
\* when | |amount1| - |amount2| | / max(|amount1|, |amount2|) <= 0.1: the
\* magnitudes are compared, so a debit and a credit of one magnitude satisfy it.
C6_MagnitudeDifference ==
    AmountsDecide /\ args[1].amount # 0 /\ args[2].amount # 0 =>
        (ret = Some("True")) <=>
            (10 * Abs(Abs(args[1].amount) - Abs(args[2].amount))
                <= Max(Abs(args[1].amount), Abs(args[2].amount)))

C6_Witness ==
    /\ AmountsDecide
    /\ args[1].amount = -100
    /\ args[2].amount = 100
    /\ ret = Some("True")

----------------------------------------------------------------------------
(* SpecDetect: one caller runs detection over a table of NumTx rows of two *)
(* descriptions, the first row of the first one, with 7 or 8 days between  *)
(* consecutive rows and 7 between the first two.                           *)

NumTx == 6
DetectKinds == {<<DescNet, -100>>, <<DescGym, -100>>}
DetectGaps == {7, 8}

InitDetect ==
    /\ \E kinds \in [1..NumTx -> DetectKinds], gaps \in [1..(NumTx - 1) -> DetectGaps] :
          /\ kinds[1] = <<DescNet, -100>>
          /\ gaps[1] = 7
          /\ store = StoreOf(Today - 50, kinds, gaps)
    /\ Validated(store)
    /\ today = Today
    /\ NoRuns
    /\ NoCall

NextDetect == \E days_back \in DaysBackChoices : Detect(1, days_back)

SpecDetect == InitDetect /\ [][NextDetect]_vars

\* The rows of the list the query of run r returned.
QueriedRows(r) == [i \in 1..Len(queried[r]) |-> store[queried[r][i]]]

SeqSet(s) == {s[i] : i \in 1..Len(s)}

Returned(r) == pc[r] = "detected"

\* The groups the loop forms over the list of run r, small ones included.
GroupsOf(r) == AllGroups(QueriedRows(r)).groups

IdsIn(group) == {group[i].id : i \in 1..Len(group)}

C3_GroupsPartitionCandidates ==
    Returned(1) =>
      LET groups == GroupsOf(1)
      IN
        /\ \A id \in SeqSet(queried[1]) :
              Cardinality({i \in 1..Len(groups) : id \in IdsIn(groups[i])}) = 1
        /\ \A i \in 1..Len(groups) :
              /\ Cardinality(IdsIn(groups[i])) = Len(groups[i])
              /\ IdsIn(groups[i]) \subseteq SeqSet(queried[1])
        /\ \A k, l \in 1..Len(patterns[1]) :
              k # l => SeqSet(patterns[1][k].transactions)
                           \cap SeqSet(patterns[1][l].transactions) = {}
        /\ \A id \in SeqSet(queried[1]) :
              (\A k \in 1..Len(patterns[1]) : id \notin SeqSet(patterns[1][k].transactions))
              => \E g \in SeqSet(groups) :
                    /\ id \in IdsIn(g)
                    /\ \/ Len(g) < 3
                       \/ Len(queried[1]) < 3
                       \/ AnalyzeTransactionGroup(g)[1].confidence < MinConfidence

\* Two patterns returned, and a candidate left out for each of the two reasons.
C3_Witness ==
    /\ Returned(1)
    /\ Len(patterns[1]) = 2
    /\ Len(analysed[1]) = 2

C3_WitnessExcluded ==
    /\ Returned(1)
    /\ Len(patterns[1]) = 1
    /\ Len(analysed[1]) = 2

\* C9: every returned pattern has a confidence between 0.6 and 1.0, and the
\* confidence computed for any group of at least 3 transactions lies in [0, 1].
C9_ConfidenceRange ==
    Returned(1) =>
        /\ \A k \in 1..Len(patterns[1]) :
              /\ patterns[1][k].confidence >= MinConfidence
              /\ patterns[1][k].confidence <= ConfScale
        /\ \A k \in 1..Len(analysed[1]) :
              /\ analysed[1][k].confidence >= 0
              /\ analysed[1][k].confidence <= ConfScale
              /\ Len(analysed[1][k].transactions) >= 3

\* A group below 0.6 was analysed and dropped while another was returned with
\* the capped confidence 1.0.
C9_Witness ==
    /\ Returned(1)
    /\ \E k \in 1..Len(analysed[1]) : analysed[1][k].confidence < MinConfidence
    /\ \E k \in 1..Len(patterns[1]) : patterns[1][k].confidence = ConfScale

\* C10: the returned list is in descending order of confidence.
C10_DescendingConfidence ==
    Returned(1) =>
        \A i, j \in 1..Len(patterns[1]) :
            i < j => patterns[1][i].confidence >= patterns[1][j].confidence

\* Two patterns returned in the opposite of the order in which they were built.
C10_Witness ==
    /\ Returned(1)
    /\ Len(patterns[1]) = 2
    /\ Len(analysed[1]) = 2
    /\ analysed[1][1].confidence < analysed[1][2].confidence
    /\ patterns[1][1] = analysed[1][2]
    /\ patterns[1][2] = analysed[1][1]

----------------------------------------------------------------------------
(* SpecGaps: detection over one group of 3 to MaxGroup transactions of one *)
(* description and amount, with every combination of the gaps GapValues.   *)

MaxGroup == 5
GapValues == {3, 9, 45, 60}
FirstDate == 40

InitGaps ==
    /\ \E n \in 3..MaxGroup :
          \E gaps \in [1..(n - 1) -> GapValues] :
              /\ store = StoreOf(FirstDate, [i \in 1..n |-> <<DescNet, -100>>], gaps)
              /\ args = gaps
    /\ Validated(store)
    /\ today = Today
    /\ NoRuns
    /\ ret = <<>>

NextGaps == \E days_back \in DaysBackChoices : Detect(1, days_back)

SpecGaps == InitGaps /\ [][NextGaps]_vars

\* Run 1 has analysed the whole table, whose gaps are `gaps`.
DetectedGaps(gaps) ==
    /\ Returned(1)
    /\ args = gaps
    /\ Len(queried[1]) = Len(gaps) + 1

\* C8 as stated: the group with gaps [3, 45, 9, 60] is classified
\* "irregular", its confidence is below 0.6 and no pattern is returned.
C8_IrregularNotReturned ==
    DetectedGaps(<<3, 45, 9, 60>>) =>
        /\ Len(analysed[1]) = 1
        /\ analysed[1][1].frequency_type = "irregular"
        /\ analysed[1][1].confidence < MinConfidence
        /\ patterns[1] = <<>>

\* C8 amended: the mean of the gaps [3, 45, 9, 60] is 29.25, within 5 of 30:
\* the group is classified "monthly" with frequency_days 30, no penalty is
\* applied, its confidence is 0.69 and the pattern is returned.
C8_MonthlyReturned ==
    DetectedGaps(<<3, 45, 9, 60>>) =>
        /\ Len(analysed[1]) = 1
        /\ analysed[1][1].frequency_type = "monthly"
        /\ analysed[1][1].frequency_days = 30
        /\ analysed[1][1].confidence = 69
        /\ analysed[1][1].confidence >= MinConfidence
        /\ patterns[1] = analysed[1]
        /\ SeqSet(patterns[1][1].transactions) = 1..5

C8_Witness ==
    /\ DetectedGaps(<<3, 45, 9, 60>>)
    /\ Len(patterns[1]) = 1

----------------------------------------------------------------------------
(* SpecMonthly: six transactions of one description and amount on the 15th *)
(* of six consecutive months, starting in any of the first MonthStarts     *)
(* months from January 2023 (2024 is a leap year).                         *)

MonthStarts == 48
FirstYear == 2023

IsLeap(year) == (year % 4 = 0 /\ year % 100 # 0) \/ year % 400 = 0

\* calendar.monthrange of month m (0 = January of FirstYear).
DaysInMonth(m) ==
    LET month == (m % 12) + 1
    IN IF month = 2 THEN (IF IsLeap(FirstYear + m \div 12) THEN 29 ELSE 28)
       ELSE IF month \in {4, 6, 9, 11} THEN 30
       ELSE 31

\* The day ordinal of the 15th of month m, counted from 31 December of the
\* year before FirstYear.
RECURSIVE Fifteenth(_)
Fifteenth(m) == IF m = 0 THEN 15 ELSE Fifteenth(m - 1) + DaysInMonth(m - 1)

MonthlyKinds == {<<DescNet, -40>>, <<DescGym, -40>>, <<DescNet, 25>>}

InitMonthly ==
    /\ \E m \in 0..(MonthStarts - 1), kind \in MonthlyKinds :
          /\ store = [id \in 1..6 |-> Row(id, Fifteenth(m + id - 1), kind[2], kind[1], NoValue)]
          /\ args = <<m>>
          /\ today = Fifteenth(m + 5)
    /\ Validated(store)
    /\ NoRuns
    /\ ret = <<>>

NextMonthly == \E days_back \in DaysBackChoices : Detect(1, days_back)

SpecMonthly == InitMonthly /\ [][NextMonthly]_vars

DetectedSixMonths == Returned(1) /\ Len(queried[1]) = 6

\* C4 as stated: exactly one pattern, "monthly", confidence >= 0.6, and
\* next_expected_date on the 15th of the 7th month.
C4_NextOnFifteenth ==
    DetectedSixMonths =>
        /\ Len(patterns[1]) = 1
        /\ patterns[1][1].frequency_type = "monthly"
        /\ patterns[1][1].confidence >= MinConfidence
        /\ patterns[1][1].next_expected_date = Fifteenth(args[1] + 6)

\* C4 amended: exactly one pattern, "monthly", confidence >= 0.6, and
\* next_expected_date 30 days after the 6th transaction, which is the 15th of
\* the 7th month exactly when the 6th month has 30 days.
C4_NextThirtyDaysLater ==
    DetectedSixMonths =>
        /\ Len(patterns[1]) = 1
        /\ patterns[1][1].frequency_type = "monthly"
        /\ patterns[1][1].frequency_days = 30
        /\ patterns[1][1].confidence >= MinConfidence
        /\ SeqSet(patterns[1][1].transactions) = 1..6
        /\ patterns[1][1].next_expected_date = store[6].date + 30
        /\ (patterns[1][1].next_expected_date = Fifteenth(args[1] + 6))
              <=> (DaysInMonth(args[1] + 5) = 30)

\* February to July: the pattern is returned and the next date is 14 August.
C4_Witness ==
    /\ DetectedSixMonths
    /\ args = <<1>>
    /\ Len(patterns[1]) = 1
    /\ patterns[1][1].next_expected_date = Fifteenth(7) - 1

----------------------------------------------------------------------------
(* Spec: the callers detect and mark over one table of six rows; the first *)
(* three have one description, the others the other one; rows 3 and 4 are *)
(* a day apart.                                                            *)

LifeGaps == <<7, 7, 1, 7, 7>>

LifeKinds ==
    {kinds \in [1..(Len(LifeGaps) + 1) -> DetectKinds] :
        /\ \A i \in 1..3 : kinds[i] = <<DescNet, -100>>
        /\ \A i \in 4..Len(kinds) : kinds[i] = <<DescGym, -100>>}

Init ==
    /\ \E kinds \in LifeKinds : store = StoreOf(Today - 50, kinds, LifeGaps)
    /\ Validated(store)
    /\ today = Today
    /\ NoRuns
    /\ NoCall

Next ==
    \E r \in Runs :
        \/ \E days_back \in DaysBackChoices : Detect(r, days_back)
        \/ \E k \in 1..Len(patterns[r]) : MarkQuery(r, k)
        \/ MarkCommit(r)

Spec == Init /\ [][Next]_vars

\* C1: a detection run returns only transactions that are not recurring in
\* the table when the run queries it; hence no id tagged by a committed
\* mark_transactions_as_recurring is in a pattern of a later run.
C1_OnlyNonRecurringDetected ==
    [][\A r \in Runs :
          (\E days_back \in DaysBackChoices : Detect(r, days_back)) =>
              /\ \A id \in SeqSet(queried'[r]) :
                    id \in DOMAIN store /\ store[id].is_recurring = FALSE
              /\ \A k \in 1..Len(patterns'[r]) :
                    /\ SeqSet(patterns'[r][k].transactions) \subseteq SeqSet(queried'[r])
                    /\ SeqSet(patterns'[r][k].transactions) \cap everMarked = {}]_vars

\* A run over the whole window, after a committed mark, that returned a
\* pattern of the rows left untagged.
C1_Witness ==
    \E r \in Runs :
        /\ Returned(r)
        /\ everMarked # {}
        /\ SeqSet(queried[r]) = DOMAIN store \ everMarked
        /\ 1 \in SeqSet(queried[r])
        /\ Len(patterns[r]) = 1

\* No row that has a recurring_group_id gets another one in this step.
NoRegroup ==
    \A id \in DOMAIN store :
        store[id].recurring_group_id # NoValue =>
            /\ id \in DOMAIN store'
            /\ store'[id].recurring_group_id = store[id].recurring_group_id

\* C27: under any interleaving of the runs, a mark never changes the
\* recurring_group_id of a transaction that already has one.
C27_GroupNeverChanges == [][NoRegroup]_vars

\* C27 amended: a mark of a pattern that comes from the caller's latest
\* detection, with no commit of another run and no earlier mark of that
\* pattern since that detection, never changes the recurring_group_id of a
\* transaction that already has one.
C27_SerialisedGroupNeverChanges ==
    [][\A r \in Runs :
          MarkCommit(r) /\ marking[r][1].pattern.transactions \in fresh[r] => NoRegroup]_vars

\* One run detected two patterns and marked each once, the other run marked
\* nothing: every row is tagged, rows 1 and 4 in different groups.
C27_Witness ==
    \E r \in Runs :
        /\ Len(patterns[r]) = 2
        /\ fresh[r] = {}
        /\ marked[r] # NoValue
        /\ \A q \in Runs \ {r} : marked[q] = NoValue /\ marking[q] = NoValue
        /\ everMarked = DOMAIN store
        /\ store[1].recurring_group_id # NoValue
        /\ store[4].recurring_group_id # NoValue
        /\ store[1].recurring_group_id # store[4].recurring_group_id

----------------------------------------------------------------------------
(* SpecMark: one caller detects and marks over a table of six weekly rows  *)
(* while rows of the table are deleted; the first five rows have one       *)
(* description.                                                            *)

MaxDeleted == 1
MarkGaps == <<7, 7, 7, 7, 7>>

MarkKinds ==
    {kinds \in [1..(Len(MarkGaps) + 1) -> DetectKinds] :
        \A i \in 1..Len(MarkGaps) : kinds[i] = <<DescNet, -100>>}

InitMark ==
    /\ \E kinds \in MarkKinds : store = StoreOf(Today - 50, kinds, MarkGaps)
    /\ Validated(store)
    /\ today = Today
    /\ NoRuns
    /\ NoCall

NextMark ==
    \/ \E days_back \in DaysBackChoices : Detect(1, days_back)
    \/ \E k \in 1..Len(patterns[1]) : MarkQuery(1, k)
    \/ MarkCommit(1)
    \/ MarkStale(1)
    \/ \E id \in DOMAIN store :
          /\ Cardinality(DOMAIN store) + MaxDeleted > Len(MarkGaps) + 1
          /\ DeleteTransaction(id)

SpecMark == InitMark /\ [][NextMark]_vars

\* The row carries the tags of the call with this frequency type and group id.
Tagged(row, frequency_type, recurring_group_id) ==
    /\ row.is_recurring = TRUE
    /\ row.recurring_pattern = Some(frequency_type)
    /\ row.recurring_group_id = Some(recurring_group_id)

\* C11: when mark_transactions_as_recurring(pattern) returns, every stored
\* transaction the pattern references has is_recurring = true,
\* recurring_pattern = pattern.frequency_type and the group id generated for
\* this call, no transaction outside the pattern carries that group id, and
\* the returned count is the number of ids the pattern references.
C11_MarkPostcondition ==
    [][\A r \in Runs :
          MarkCommit(r) =>
              LET call == marking[r][1]
                  ids == SeqSet(call.pattern.transactions)
              IN /\ \A id \in ids \cap DOMAIN store' :
                        Tagged(store'[id], call.pattern.frequency_type, call.recurring_group_id)
                 /\ \A id \in DOMAIN store' \ ids :
                        store'[id].recurring_group_id # Some(call.recurring_group_id)
                 /\ marked'[r][1].updated_count = Len(call.pattern.transactions)]_vars

\* C12: a mark_transactions_as_recurring call on a pattern of 5 ids changes
\* the table in no step but the one that ends it, and that step leaves either
\* all 5 rows tagged with the type and the one group id of the call, or none
\* of the 5 rows changed.
C12_AllFiveOrNone ==
    [][\A r \in Runs :
          /\ (\E k \in 1..Len(patterns[r]) : MarkQuery(r, k)) => store' = store
          /\ (MarkCommit(r) \/ MarkStale(r)) =>
                LET call == marking[r][1]
                    ids == SeqSet(call.pattern.transactions)
                IN Cardinality(ids) = 5 =>
                      \/ \A id \in ids :
                            /\ id \in DOMAIN store'
                            /\ Tagged(store'[id], call.pattern.frequency_type,
                                      call.recurring_group_id)
                      \/ \A id \in ids \cap DOMAIN store : store'[id] = store[id]]_vars

\* C13: a mark_transactions_as_recurring call on a pattern with an id that
\* is not in the table any more fails as a whole: it raises and no
\* transaction carries the group id of the call.
C13_MissingIdFailsWholeCall ==
    \A r \in Runs :
        marked[r] # NoValue =>
            LET call == marked[r][1]
            IN ~(SeqSet(call.pattern.transactions) \subseteq call.transactions) =>
                  /\ call.raised
                  /\ \A id \in DOMAIN store :
                        store[id].recurring_group_id # Some(call.recurring_group_id)

----------------------------------------------------------------------------
(* RecurringDetector.predict_next_transactions                             *)

frequency_map ==
    { <<"daily", 1>>, <<"weekly", 7>>, <<"biweekly", 14>>, <<"monthly", 30>>,
      <<"quarterly", 90>>, <<"yearly", 365>> }

DefaultFrequencyDays == 30
ForecastConfidence == 80

\* The lookup never finding the stored string.
FrequencyDaysNotFound(pattern) == DefaultFrequencyDays

\* frequency_map.get(pattern, 30); pattern is the recurring_pattern column.
FrequencyDays(pattern) ==
    IF pattern # NoValue /\ \E e \in frequency_map : e[1] = pattern[1]
    THEN (CHOOSE e \in frequency_map : e[1] = pattern[1])[2]
    ELSE DefaultFrequencyDays

\* The distinct (recurring_group_id, recurring_pattern) pairs of the rows
\* with is_recurring == True and a group id.
RecurringGroups(rows) ==
    {<<rows[id].recurring_group_id, rows[id].recurring_pattern>> :
        id \in {o \in DOMAIN rows :
                   rows[o].is_recurring = TRUE /\ rows[o].recurring_group_id # NoValue}}

\* .all() of a query without ORDER BY: the pairs in any order.
RECURSIVE AnyOrder(_)
AnyOrder(S) ==
    IF S = {} THEN {<<>>}
    ELSE UNION {{<<x>> \o rest : rest \in AnyOrder(S \ {x})} : x \in S}

\* order_by(Transaction.date.desc()).first() over the rows of the group:
\* a row of the latest date; of several such rows the database picks one.
LastTransactions(rows, group_id) ==
    {id \in DOMAIN rows :
        /\ rows[id].recurring_group_id = group_id
        /\ \A o \in DOMAIN rows :
              rows[o].recurring_group_id = group_id => rows[o].date <= rows[id].date}

\* last_tx.llm_category or (last_tx.category.name if last_tx.category else "Outros")
CategoryOf(tx) ==
    IF tx.llm_category # NoValue THEN tx.llm_category[1]
    ELSE IF tx.category # NoValue THEN tx.category[1]
    ELSE "Outros"

ForecastRecord(last_tx, pattern, group_id, next_date) ==
    [ predicted_date |-> next_date,
      description |-> last_tx.description,
      estimated_amount |-> last_tx.amount,
      category |-> CategoryOf(last_tx),
      frequency_type |-> pattern,
      confidence |-> ForecastConfidence,
      recurring_group_id |-> group_id[1] ]

\* while next_date <= target_date: append a record, step by frequency_days.
RECURSIVE Projection(_, _, _, _, _)
Projection(last_tx, pattern, group_id, next_date, target_date) ==
    IF ~(next_date <= target_date) THEN <<>>
    ELSE <<ForecastRecord(last_tx, pattern, group_id, next_date)>>
         \o Projection(last_tx, pattern, group_id,
                       next_date + FrequencyDays(pattern), target_date)

\* The loop over recurring_groups: every list `predictions` it can build,
\* one for each way the database picks the last row of a group.
RECURSIVE ProjectGroups(_, _, _)
ProjectGroups(rows, groups, target_date) ==
    IF groups = <<>> THEN {<<>>}
    ELSE LET group_id == Head(groups)[1]
             pattern == Head(groups)[2]
             rest == ProjectGroups(rows, Tail(groups), target_date)
         IN IF LastTransactions(rows, group_id) = {} THEN rest
            ELSE {Projection(rows[id], pattern, group_id,
                             rows[id].date + FrequencyDays(pattern), target_date) \o more :
                     id \in LastTransactions(rows, group_id), more \in rest}

\* predictions.sort(key=lambda p: p["predicted_date"]): stable.
RECURSIVE InsertByPredictedDate(_, _)
InsertByPredictedDate(sorted, p) ==
    IF sorted = <<>> THEN <<p>>
    ELSE IF sorted[Len(sorted)].predicted_date <= p.predicted_date THEN Append(sorted, p)
    ELSE Append(InsertByPredictedDate(SubSeq(sorted, 1, Len(sorted) - 1), p),
                sorted[Len(sorted)])

RECURSIVE SortByPredictedDate(_)
SortByPredictedDate(ps) ==
    IF ps = <<>> THEN <<>>
    ELSE InsertByPredictedDate(SortByPredictedDate(SubSeq(ps, 1, Len(ps) - 1)), ps[Len(ps)])

\* Every list the call can return over the table `rows` on day `day`.
PredictNextTransactions(rows, day, days_ahead) ==
    {SortByPredictedDate(predictions) :
        predictions \in UNION {ProjectGroups(rows, groups, day + days_ahead) :
                                  groups \in AnyOrder(RecurringGroups(rows))}}

\* days_ahead: the default and a fortnight.
DaysAheadChoices == {30, 14}

\* predict_next_transactions(db, days_ahead), called by run r.
Predict(r, days_ahead) ==
    /\ pc[r] \in {"idle", "detected"}
    /\ \E predictions \in PredictNextTransactions(store, today, days_ahead) :
          forecast' = [forecast EXCEPT ![r] =
              Some([ days_ahead |-> days_ahead, today |-> today, rows |-> store,
                     predictions |-> predictions ])]
    /\ UNCHANGED <<store, today, nextUuid, pc, queried, analysed, patterns, marking, marked,
                   everMarked, fresh, args, ret>>

----------------------------------------------------------------------------
(* SpecForecast: one caller detects, marks and forecasts over a table of   *)
(* six rows whose last row is dated two days before Today; rows 1, 3 and 5 *)
(* have one description and amount, rows 2 and 4 are alike, and the day of *)
(* the calls is Today or eight days on.                                    *)

ForecastKindSet == {<<DescNet, -100>>, <<DescNet, -105>>, <<DescGym, -100>>}
ForecastGapChoices == {<<7, 7, 7, 7, 0>>, <<0, 7, 0, 7, 0>>}
ForecastDays == {Today, Today + 8}

InitForecast ==
    /\ \E gaps \in ForecastGapChoices :
          \E kinds \in [1..(Len(gaps) + 1) -> ForecastKindSet] :
              /\ \A i \in {1, 3, 5} : kinds[i] = <<DescNet, -100>>
              /\ kinds[2] = kinds[4]
              /\ kinds[2][2] = -100
              /\ store = StoreOf(Today - 2 - SumSeq(gaps), kinds, gaps)
    /\ Validated(store)
    /\ today \in ForecastDays
    /\ NoRuns
    /\ NoCall

NextForecast ==
    \/ \E days_back \in DaysBackChoices : Detect(1, days_back)
    \/ \E k \in 1..Len(patterns[1]) : MarkQuery(1, k)
    \/ MarkCommit(1)
    \/ \E days_ahead \in DaysAheadChoices : Predict(1, days_ahead)

SpecForecast == InitForecast /\ [][NextForecast]_vars

\* The records of the forecast f that belong to the group.
GroupRecords(f, group_id) ==
    SelectSeq(f.predictions, LAMBDA p : p.recurring_group_id = group_id[1])

PredictedDates(records) == [i \in 1..Len(records) |-> records[i].predicted_date]

\* The date of the most recent transaction of the group.
LastDate(rows, group_id) == rows[CHOOSE id \in LastTransactions(rows, group_id) : TRUE].date

\* The groups of the table of forecast f that are stored as "weekly".
WeeklyGroups(f) == {g \in RecurringGroups(f.rows) : g[2] = Some("weekly")}

\* C14 as stated: a 30-day forecast holds, for every stored "weekly" group
\* whose most recent transaction is dated D <= today, exactly the 4 records
\* dated D+7, D+14, D+21 and D+28.
C14_FourWeeklyDates ==
    forecast[1] # NoValue /\ forecast[1][1].days_ahead = 30 =>
        LET f == forecast[1][1]
        IN \A g \in WeeklyGroups(f) :
              LET D == LastDate(f.rows, g[1])
              IN D <= f.today =>
                    PredictedDates(GroupRecords(f, g[1])) = <<D + 7, D + 14, D + 21, D + 28>>

\* C14 amended: the forecast holds exactly the 4 records dated D+7, D+14,
\* D+21 and D+28 for every "weekly" group whose most recent transaction is
\* dated D with today - 4 <= D <= today; for an earlier D it holds more than
\* 4 records.
C14_FourWeeklyDatesNearToday ==
    forecast[1] # NoValue /\ forecast[1][1].days_ahead = 30 =>
        LET f == forecast[1][1]
        IN \A g \in WeeklyGroups(f) :
              LET D == LastDate(f.rows, g[1])
              IN /\ (f.today - 4 <= D /\ D <= f.today) =>
                       PredictedDates(GroupRecords(f, g[1]))
                           = <<D + 7, D + 14, D + 21, D + 28>>
                 /\ D < f.today - 4 => Len(GroupRecords(f, g[1])) > 4

\* A 30-day forecast over a weekly group last seen 2 days before the call,
\* with its 4 records.
C14_Witness ==
    /\ forecast[1] # NoValue
    /\ forecast[1][1].days_ahead = 30
    /\ \E g \in WeeklyGroups(forecast[1][1]) :
          /\ LastDate(forecast[1][1].rows, g[1]) = forecast[1][1].today - 2
          /\ Len(GroupRecords(forecast[1][1], g[1])) = 4

\* C15: every record of a forecast is dated strictly after the last
\* transaction of its group, not before the day of the call and not after
\* that day plus days_ahead.
C15_UpcomingOnly ==
    forecast[1] # NoValue =>
        LET f == forecast[1][1]
        IN \A i \in 1..Len(f.predictions) :
              LET p == f.predictions[i]
              IN /\ p.predicted_date > LastDate(f.rows, Some(p.recurring_group_id))
                 /\ p.predicted_date >= f.today
                 /\ p.predicted_date <= f.today + f.days_ahead

\* C16: a forecast asked again with the same days_ahead, on the same day and
\* over the same table, returns the same list in the same order.
C16_SameForecastTwice ==
    [][\A r \in Runs :
          \A days_ahead \in DaysAheadChoices :
              /\ Predict(r, days_ahead)
              /\ forecast[r] # NoValue
              /\ forecast[r][1].days_ahead = days_ahead
              /\ forecast[r][1].today = today
              /\ forecast[r][1].rows = store
              => forecast'[r][1].predictions = forecast[r][1].predictions]_vars

\* C28: in every state reached from a table without recurring rows by
\* detect, mark and predict calls, a row is_recurring exactly when it has a
\* recurring_group_id and exactly when it has a recurring_pattern, and rows
\* of one recurring_group_id have the same recurring_pattern.
C28_RecurringFieldsAgree ==
    \A id \in DOMAIN store :
        /\ store[id].is_recurring = TRUE <=> store[id].recurring_group_id # NoValue
        /\ store[id].is_recurring = TRUE <=> store[id].recurring_pattern # NoValue
        /\ \A o \in DOMAIN store :
              /\ store[id].recurring_group_id # NoValue
              /\ store[o].recurring_group_id = store[id].recurring_group_id
              => store[o].recurring_pattern = store[id].recurring_pattern

\* A forecast made over a table of which some rows are marked and some not.
C28_Witness ==
    /\ forecast[1] # NoValue
    /\ forecast[1][1].rows = store
    /\ \E id \in DOMAIN store : store[id].is_recurring = TRUE
    /\ \E id \in DOMAIN store : store[id].is_recurring = FALSE

\* The row without the fields a mark is said to write.
WithoutRecurringFields(row) ==
    [row EXCEPT !.is_recurring = FALSE, !.recurring_pattern = NoValue,
                !.recurring_group_id = NoValue]

\* The ids the committing mark call of this step refers to.
ReferencedInStep ==
    UNION {IF pc[r] = "marking" /\ pc'[r] = "detected"
           THEN SeqSet(marking[r][1].pattern.transactions) ELSE {} : r \in Runs}

\* C30: detect and predict leave every row as it is; a mark changes only
\* is_recurring, recurring_pattern and recurring_group_id of the rows its
\* pattern refers to, and nothing of the other rows.
C30_OnlyRecurringFieldsChange ==
    [][/\ DOMAIN store' = DOMAIN store
       /\ \A id \in DOMAIN store :
             IF id \in ReferencedInStep
             THEN WithoutRecurringFields(store'[id]) = WithoutRecurringFields(store[id])
             ELSE store'[id] = store[id]]_vars

\* C30 amended: detect and predict leave every row as it is; a mark changes
\* only is_recurring, recurring_pattern, recurring_group_id and updated_at
\* (set to the time of the commit) of the rows its pattern refers to, and
\* nothing of the other rows.
C30_OnlyRecurringFieldsAndStampChange ==
    [][/\ DOMAIN store' = DOMAIN store
       /\ \A id \in DOMAIN store :
             IF id \in ReferencedInStep
             THEN /\ [WithoutRecurringFields(store'[id]) EXCEPT !.updated_at = 0]
                       = [WithoutRecurringFields(store[id]) EXCEPT !.updated_at = 0]
                  /\ store'[id].updated_at = today
             ELSE store'[id] = store[id]]_vars

\* A committed mark of three rows of a table that has other rows, which
\* are as the import wrote them, followed by a detection and a forecast.
C30_Witness ==
    /\ marked[1] # NoValue
    /\ Cardinality(everMarked) = 3
    /\ \A id \in everMarked : store[id].is_recurring = TRUE /\ store[id].updated_at = today
    /\ \A id \in DOMAIN store \ everMarked :
          store[id] = Row(id, store[id].date, store[id].amount, store[id].description,
                          store[id].counterpart_name)
    /\ forecast[1] # NoValue
    /\ forecast[1][1].rows = store
    /\ Returned(1)
    /\ SeqSet(queried[1]) = DOMAIN store \ everMarked

----------------------------------------------------------------------------
(* SpecAnalyze: _analyze_transaction_group on a list of 2 to MaxAnalysed   *)
(* transactions of one description and amount, dated in any order on the   *)
(* days AnalyseDates.                                                      *)

MaxAnalysed == 4
AnalyseDates == {100, 101, 103, 110, 140, 300}

InitAnalyze ==
    /\ store = <<>>
    /\ today = Today
    /\ NoRuns
    /\ \E n \in 2..MaxAnalysed :
          \E dates \in [1..n -> AnalyseDates] :
              args = <<[id \in 1..n |-> Row(id, dates[id], -100, DescNet, NoValue)]>>
    /\ ret = <<>>

Call_analyze_transaction_group ==
    /\ Len(args) = 1
    /\ ret = <<>>
    /\ ret' = Some(AnalyzeTransactionGroup(args[1]))
    /\ UNCHANGED <<store, today, nextUuid, pc, queried, analysed, patterns, marking,
                   marked, forecast, everMarked, fresh, args>>

NextAnalyze == Call_analyze_transaction_group

SpecAnalyze == InitAnalyze /\ [][NextAnalyze]_vars

\* C18: the pattern of a group has next_expected_date = the latest date of
\* the group + frequency_days with frequency_days >= 1, so that
\* next_expected_date is later than the date of every transaction of the
\* group; a group of fewer than 3 transactions has no pattern.
C18_NextDateAfterLast ==
    ret # <<>> =>
        LET group == args[1]
            latest == CHOOSE d \in {group[i].date : i \in 1..Len(group)} :
                          \A i \in 1..Len(group) : group[i].date <= d
        IN IF Len(group) < 3 THEN ret = Some(NoValue)
           ELSE /\ ret[1] # NoValue
                /\ ret[1][1].frequency_days >= 1
                /\ ret[1][1].next_expected_date = latest + ret[1][1].frequency_days
                /\ \A i \in 1..Len(group) : ret[1][1].next_expected_date > group[i].date

\* Three transactions of one day: the mean gap is 0, the pattern is "daily"
\* and the next date is the day after.
C18_Witness ==
    /\ ret # <<>>
    /\ Len(args[1]) = 3
    /\ \A i \in 1..3 : args[1][i].date = 100
    /\ ret[1] # NoValue
    /\ ret[1][1].frequency_days = 1
    /\ ret[1][1].next_expected_date = 101

----------------------------------------------------------------------------
(* SpecGroup: _group_similar_transactions on a list of 3 to MaxListed      *)
(* transactions of two descriptions and four amounts; the id of a          *)
(* transaction is its position in the list.                                *)

MaxListed == 4
GroupKinds ==
    {<<DescNet, -100>>, <<DescNet, -109>>, <<DescNet, -91>>, <<DescNet, -118>>,
     <<DescGym, -100>>}

InitGroup ==
    /\ store = <<>>
    /\ today = Today
    /\ NoRuns
    /\ \E n \in 3..MaxListed :
          \E kinds \in [1..n -> GroupKinds] :
              args = <<[id \in 1..n |-> Row(id, Today, kinds[id][2], kinds[id][1], NoValue)]>>
    /\ ret = <<>>

Call_group_similar_transactions ==
    /\ Len(args) = 1
    /\ ret = <<>>
    /\ ret' = Some(GroupSimilarTransactions(args[1]))
    /\ UNCHANGED <<store, today, nextUuid, pc, queried, analysed, patterns, marking,
                   marked, forecast, everMarked, fresh, args>>

NextGroup == Call_group_similar_transactions

SpecGroup == InitGroup /\ [][NextGroup]_vars

SimilarTo(tx1, tx2) == AreTransactionsSimilar(tx1, tx2) = "True"

\* C19: with the groups taken in the order in which they are seeded, small
\* ones included: the first member of a group (its seed) precedes the others
\* in the input and is in no earlier group; every other member is similar to
\* the seed; no member is similar to the seed of an earlier group; and the
\* group is exactly its seed and the later transactions, in no earlier
\* group, that are similar to the seed, whether or not they are similar to
\* each other.  The call returns the groups of at least 3 members.
C19_SeedOnlyGrouping ==
    ret # <<>> =>
        LET transactions == args[1]
            all == AllGroups(transactions).groups
        IN /\ ret[1].groups = SelectSeq(all, LAMBDA g : Len(g) >= 3)
           /\ \A q \in 1..Len(all) :
                 LET g == all[q]
                     seed == g[1]
                     earlier == UNION {IdsIn(all[o]) : o \in 1..(q - 1)}
                 IN /\ \A k \in 2..Len(g) : g[k - 1].id < g[k].id
                    /\ seed.id \notin earlier
                    /\ \A k \in 2..Len(g) : SimilarTo(seed, g[k])
                    /\ \A o \in 1..(q - 1) :
                          /\ all[o][1].id < seed.id
                          /\ \A k \in 1..Len(g) : ~SimilarTo(all[o][1], g[k])
                    /\ IdsIn(g) = {seed.id} \cup
                          {id \in 1..Len(transactions) :
                              /\ id > seed.id
                              /\ id \notin earlier
                              /\ SimilarTo(seed, transactions[id])}

\* A returned group whose second and third member are both similar to the
\* seed and not similar to each other.
C19_Witness ==
    /\ ret # <<>>
    /\ Len(args) = 1
    /\ Len(ret[1].groups) = 1
    /\ Len(ret[1].groups[1]) = 3
    /\ SimilarTo(ret[1].groups[1][1], ret[1].groups[1][2])
    /\ SimilarTo(ret[1].groups[1][1], ret[1].groups[1][3])
    /\ ~SimilarTo(ret[1].groups[1][2], ret[1].groups[1][3])

----------------------------------------------------------------------------
(* SpecFrequency: _detect_frequency on a list of 2 to MaxIntervals gaps,   *)
(* each 0, 1 or 2 days above one of the lengths FrequencyBases, which lie  *)
(* at the edges of the buckets.                                            *)

MaxIntervals == 3
FrequencyBases == {0, 1, 3, 8, 10, 16, 24, 34, 79, 99, 334, 394}

InitFrequency ==
    /\ store = <<>>
    /\ today = Today
    /\ NoRuns
    /\ \E n \in 2..MaxIntervals, base \in FrequencyBases :
          \E deltas \in [1..n -> 0..2] :
              args = <<[i \in 1..n |-> base + deltas[i]]>>
    /\ ret = <<>>

Call_detect_frequency ==
    /\ Len(args) = 1
    /\ ret = <<>>
    /\ ret' = Some(DetectFrequency(args[1]))
    /\ UNCHANGED <<store, today, nextUuid, pc, queried, analysed, patterns, marking,
                   marked, forecast, everMarked, fresh, args>>

NextFrequency == Call_detect_frequency

SpecFrequency == InitFrequency /\ [][NextFrequency]_vars

\* The mean of the gaps lies in [low, high].
MeanWithin(intervals, low, high) ==
    /\ low * Len(intervals) <= SumSeq(intervals)
    /\ SumSeq(intervals) <= high * Len(intervals)

\* C20: the mean gap m decides the classification: m in [0, 2] is "daily"
\* with frequency_days 1, [5, 9] "weekly" 7, [11, 17] "biweekly" 14,
\* [25, 35] "monthly" 30, [80, 100] "quarterly" 90, [335, 395] "yearly" 365,
\* the bounds included; any other m is "irregular" with frequency_days the
\* integer part of m.
C20_MeanGapBuckets ==
    ret # <<>> =>
        LET intervals == args[1]
            info == ret[1][1]
            expected ==
                IF MeanWithin(intervals, 0, 2) THEN <<1, "daily">>
                ELSE IF MeanWithin(intervals, 5, 9) THEN <<7, "weekly">>
                ELSE IF MeanWithin(intervals, 11, 17) THEN <<14, "biweekly">>
                ELSE IF MeanWithin(intervals, 25, 35) THEN <<30, "monthly">>
                ELSE IF MeanWithin(intervals, 80, 100) THEN <<90, "quarterly">>
                ELSE IF MeanWithin(intervals, 335, 395) THEN <<365, "yearly">>
                ELSE <<SumSeq(intervals) \div Len(intervals), "irregular">>
        IN /\ ret[1] # NoValue
           /\ <<info[1], info[2]>> = expected

\* Gaps 9 and 10: the mean 9.5 is in no bucket, the result is "irregular"
\* with frequency_days 9.
C20_Witness ==
    /\ ret # <<>>
    /\ args = << <<9, 10>> >>
    /\ ret[1] # NoValue
    /\ ret[1][1][1] = 9
    /\ ret[1][1][2] = "irregular"

----------------------------------------------------------------------------
(* SpecOccurrences: _analyze_transaction_group on a group of 3 to          *)
(* MaxOccurrences transactions whose consecutive dates are each the same   *)
(* day or 3 days apart.                                                    *)

MaxOccurrences == 8
OccurrenceGaps == {0, 3}

InitOccurrences ==
    /\ store = <<>>
    /\ today = Today
    /\ NoRuns
    /\ \E n \in 3..MaxOccurrences :
          \E gaps \in [1..(n - 1) -> OccurrenceGaps] :
              args = <<[id \in 1..n |->
                          Row(id, DateAt(100, gaps, id), -100, DescNet, NoValue)]>>
    /\ ret = <<>>

NextOccurrences == Call_analyze_transaction_group

SpecOccurrences == InitOccurrences /\ [][NextOccurrences]_vars

\* Every gap of the date-ordered group is g days.
EveryGap(group, g) == \A i \in 1..(Len(group) - 1) : group[i + 1].date - group[i].date = g

\* The confidence of an analysed group whose gaps are all 0 (cv infinite,
\* "daily": the bonus alone) or all 3 (cv 0, "irregular": half of 1 + bonus),
\* for the bonus of `counted` occurrences.
BonusShows(group, confidence, counted) ==
    LET bonus == Min(OccurrenceBonusCap, (counted - 2) * OccurrenceBonusStep)
    IN /\ EveryGap(group, 0) => confidence = bonus
       /\ EveryGap(group, 3) => confidence = Min(ConfScale, (ConfScale + bonus) \div 2)

----------------------------------------------------------------------------
(* SpecRegular: one caller detects, marks and forecasts over a table of 3  *)
(* to MaxRegular rows of one description and amount, evenly spaced; the    *)
(* last row is dated two days before Today.                                *)

MaxRegular == 7
RegularGaps == {1, 3, 7, 14, 20, 30, 90}

InitRegular ==
    /\ \E n \in 3..MaxRegular :
          \E g \in RegularGaps :
              store = StoreOf(Today - 2 - (n - 1) * g,
                              [i \in 1..n |-> <<DescNet, -100>>],
                              [i \in 1..(n - 1) |-> g])
    /\ Validated(store)
    /\ today = Today
    /\ NoRuns
    /\ NoCall

NextRegular ==
    \/ \E days_back \in DaysBackChoices : Detect(1, days_back)
    \/ \E k \in 1..Len(patterns[1]) : MarkQuery(1, k)
    \/ MarkCommit(1)
    \/ \E days_ahead \in DaysAheadChoices : Predict(1, days_ahead)

SpecRegular == InitRegular /\ [][NextRegular]_vars

\* C22: the 0.5 penalty of an "irregular" group applies to the confidence
\* already capped at 1.0, so the confidence of such a group is at most 0.5
\* and detect_recurring_transactions returns no "irregular" pattern.
C22_IrregularNeverReturned ==
    Returned(1) =>
        /\ \A i \in 1..Len(analysed[1]) :
              analysed[1][i].frequency_type = "irregular" =>
                  2 * analysed[1][i].confidence <= ConfScale
        /\ \A k \in 1..Len(patterns[1]) : patterns[1][k].frequency_type # "irregular"

\* C29: once a returned pattern is marked and the table holds its group as
\* marked, the earliest date a forecast with a window that reaches
\* next_expected_date projects for that group is next_expected_date.
C29_ForecastStartsAtNextExpected ==
    marked[1] # NoValue /\ forecast[1] # NoValue =>
        LET call == marked[1][1]
            f == forecast[1][1]
            group_id == Some(call.recurring_group_id)
            tagged == {id \in DOMAIN f.rows : f.rows[id].recurring_group_id = group_id}
            records == GroupRecords(f, group_id)
        IN /\ ~call.raised
           /\ tagged = call.transactions
           /\ call.pattern.next_expected_date <= f.today + f.days_ahead
           => /\ records # <<>>
              /\ \A i \in 1..Len(records) :
                    records[i].predicted_date >= call.pattern.next_expected_date
              /\ \E i \in 1..Len(records) :
                    records[i].predicted_date = call.pattern.next_expected_date

----------------------------------------------------------------------------
(* SpecSameDay: one detection over a table of 3 to MaxSameDay rows of one  *)
(* description and amount, all dated the same day.                         *)

MaxSameDay == 6

InitSameDay ==
    /\ \E n \in 3..MaxSameDay :
          store = StoreOf(Today - 2, [i \in 1..n |-> <<DescNet, -100>>],
                          [i \in 1..(n - 1) |-> 0])
    /\ Validated(store)
    /\ today = Today
    /\ NoRuns
    /\ NoCall

NextSameDay == pc[1] = "idle" /\ \E days_back \in DaysBackChoices : Detect(1, days_back)

SpecSameDay == InitSameDay /\ [][NextSameDay]_vars

\* C23: a group of 3 or more transactions of one day (mean gap 0) makes the
\* detection neither raise nor return a pattern, whatever the size of the
\* group: the group is analysed with a confidence below the 0.6 cutoff.
C23_ZeroMeanGapNoPattern ==
    pc[1] # "idle" =>
        /\ pc[1] = "detected"
        /\ Len(queried[1]) = Cardinality(DOMAIN store)
        /\ Len(analysed[1]) = 1
        /\ Len(analysed[1][1].transactions) = Len(queried[1])
        /\ analysed[1][1].confidence < MinConfidence
        /\ patterns[1] = <<>>

\* Five transactions of one day, detected: one group, analysed as "daily"
\* with the bonus of 4 gaps as its confidence, and nothing returned.
C23_Witness ==
    /\ Returned(1)
    /\ Len(queried[1]) = 5
    /\ Len(analysed[1]) = 1
    /\ analysed[1][1].frequency_type = "daily"
    /\ analysed[1][1].confidence = 10
    /\ patterns[1] = <<>>

----------------------------------------------------------------------------
(* SpecWords: _generate_description_pattern on a group of 3 to MaxTexts    *)
(* transactions whose descriptions are drawn from WordTexts.               *)

MaxTexts == 4

TextNetXyz == <<"N", "e", "t", " ", "x", "y", "z">>
TextNetXyw == <<"n", "e", "t", " ", "x", "y", "w">>
TextPix == <<"p", "i", "x">>
TextPixDe == <<"p", "i", "x", " ", "d", "e">>
TextFourWords ==
    <<"n", "e", "t", " ", "a", "b", "c", " ", "d", "e", "f", " ", "x", "y", "z", "1", " ",
      "g", "h", "i">>

WordTexts == {TextNetXyz, TextNetXyw, TextPix, TextPixDe, TextFourWords}

InitWords ==
    /\ store = <<>>
    /\ today = Today
    /\ NoRuns
    /\ \E n \in 3..MaxTexts :
          \E texts \in [1..n -> WordTexts] :
              args = <<[id \in 1..n |-> Row(id, Today, -100, texts[id], NoValue)]>>
    /\ ret = <<>>

\* The call, with the list _find_common_words gave it and its result.
Call_generate_description_pattern ==
    /\ Len(args) = 1
    /\ ret = <<>>
    /\ ret' = Some([ common_words |->
                         FindCommonWords([i \in 1..Len(args[1]) |-> args[1][i].description]),
                     description_pattern |-> GenerateDescriptionPattern(args[1]) ])
    /\ UNCHANGED <<store, today, nextUuid, pc, queried, analysed, patterns, marking,
                   marked, forecast, everMarked, fresh, args>>

NextWords == Call_generate_description_pattern

SpecWords == InitWords /\ [][NextWords]_vars

\* C25: description_pattern joins at most 3 words, each occurring at least
\* ceil(0.7 * group_size) times in the descriptions of the group (3 times
\* for a group of 3); when no word occurs that often it is the most common
\* exact description.
C25_WordsInSeventyPercent ==
    ret # <<>> =>
        LET descriptions == [i \in 1..Len(args[1]) |-> args[1][i].description]
            all_words == AllWords(descriptions)
            needed == (7 * Len(descriptions) + 9) \div 10
            Enough(w) == CountOf(all_words, w) >= needed
            words == ret[1].common_words
        IN IF \E i \in 1..Len(all_words) : Enough(all_words[i])
           THEN /\ words # <<>>
                /\ Len(words) <= 3
                /\ \A i \in 1..Len(words) : Enough(words[i])
                /\ ret[1].description_pattern = JoinWords(words)
           ELSE ret[1].description_pattern = MostCommon(descriptions)

----------------------------------------------------------------------------
(* SpecCategories: _analyze_transaction_group on a group of 3 to           *)
(* MaxLabelled weekly transactions, each with or without a category and    *)
(* with or without an llm_category.                                        *)

MaxLabelled == 4
CategoryNames == {NoValue, Some("Lazer")}
LlmCategories == {NoValue, Some("Streaming")}

InitCategories ==
    /\ store = <<>>
    /\ today = Today
    /\ NoRuns
    /\ \E n \in 3..MaxLabelled :
          \E category \in [1..n -> CategoryNames] :
              \E llm_category \in [1..n -> LlmCategories] :
                  args = <<[id \in 1..n |->
                              [Row(id, 100 + 7 * id, -100, DescNet, NoValue) EXCEPT
                                  !.category = category[id],
                                  !.llm_category = llm_category[id]]]>>
    /\ ret = <<>>

NextCategories == Call_analyze_transaction_group

SpecCategories == InitCategories /\ [][NextCategories]_vars

\* The label the claim has a transaction contribute: its llm_category, else
\* its category, else none.
OwnLabel(tx) ==
    IF tx.llm_category # NoValue THEN tx.llm_category
    ELSE IF tx.category # NoValue THEN tx.category
    ELSE NoValue

\* C26: category_suggestion is a most frequent label of the group, where a
\* transaction contributes its llm_category when it has one and otherwise
\* its category, also when it has an llm_category and no category; it is
\* None when no transaction has either.
C26_MostFrequentOwnLabel ==
    ret # <<>> /\ ret[1] # NoValue =>
        LET group == args[1]
            Times(label) == Cardinality({i \in 1..Len(group) : OwnLabel(group[i]) = label})
            labels == {OwnLabel(group[i]) : i \in 1..Len(group)} \ {NoValue}
            suggestion == ret[1][1].category_suggestion
        IN IF labels = {} THEN suggestion = NoValue
           ELSE /\ suggestion \in labels
                /\ \A label \in labels : Times(label) <= Times(suggestion)

====
